---- MODULE Spec2Model ----
(***************************************************************************)
(* A model of sprint_summary.py: the command-line run (main), the two      *)
(* interactive date prompts, the SprintSummary object (construction and    *)
(* configuration validation), the two fetches and the two renderers.       *)
(*                                                                         *)
(* A Python str is a sequence of one-character strings.  "SUP2" stands for *)
(* the single character U+00B2 (superscript two), for which str.isdigit()  *)
(* is True and int() raises ValueError.  A longer string inside a sequence *)
(* (": ", "/browse/") is a literal chunk of an f-string.                   *)
(***************************************************************************)
EXTENDS Integers, Sequences, FiniteSets, TLC

\* ------------------------------------------------------------------ bounds
\* how many rejected lines one prompt may read before a line must be accepted
MaxRetries == 1
\* how many issues a 2xx issue-tracker response carries at most
MaxIssues == 2

\* ----------------------------------------------------------------- strings
Digits == <<"0", "1", "2", "3", "4", "5", "6", "7", "8", "9">>
DecimalDigits == {Digits[i] : i \in 1..10}
NonZeroDigits == DecimalDigits \ {"0"}
\* characters c with c.isdigit() and not c.isdecimal()
SuperscriptDigits == {"SUP2"}
Whitespace == {" "}

DigitVal(c) == (CHOOSE i \in 1..10 : Digits[i] = c) - 1

\* s[i], or a marker past either end
At(s, i) == IF i \in 1..Len(s) THEN s[i] ELSE "EOS"

RECURSIVE lstrip(_)
lstrip(s) == IF s # <<>> /\ Head(s) \in Whitespace THEN lstrip(Tail(s)) ELSE s

RECURSIVE rstripChars(_, _)
rstripChars(s, cs) ==
    IF s # <<>> /\ s[Len(s)] \in cs
    THEN rstripChars(SubSeq(s, 1, Len(s) - 1), cs)
    ELSE s

\* str.strip()
strip(s) == rstripChars(lstrip(s), Whitespace)

\* str.isdigit(): non-empty and every character is a digit character
isdigit(s) == s # <<>> /\ \A i \in 1..Len(s) : s[i] \in DecimalDigits \cup SuperscriptDigits

RECURSIVE DecValue(_)
DecValue(s) ==
    IF s = <<>> THEN 0
    ELSE DecValue(SubSeq(s, 1, Len(s) - 1)) * 10 + DigitVal(s[Len(s)])

\* int(s) on a string of digit characters: the value, or ValueError
int(s) ==
    IF \A i \in 1..Len(s) : s[i] \in DecimalDigits
    THEN [raised |-> "none", val |-> DecValue(s)]
    ELSE [raised |-> "ValueError", val |-> 0]

RECURSIVE str(_)
\* str(n) for n >= 0
str(n) == IF n < 10 THEN <<Digits[n + 1]>> ELSE str(n \div 10) \o <<Digits[(n % 10) + 1]>>

\* ------------------------------------------------------------------- dates
\* A datetime is [ord, sec]: the proleptic Gregorian ordinal of its date
\* (0001-01-01 is 1) and the seconds since midnight.
IsLeap(y) == y % 4 = 0 /\ (y % 100 # 0 \/ y % 400 = 0)

DaysInMonth(y, m) ==
    IF m = 2 THEN (IF IsLeap(y) THEN 29 ELSE 28)
    ELSE IF m \in {4, 6, 9, 11} THEN 30 ELSE 31

DaysBeforeYear(y) == (y - 1) * 365 + (y - 1) \div 4 - (y - 1) \div 100 + (y - 1) \div 400

RECURSIVE DaysBeforeMonth(_, _)
DaysBeforeMonth(y, m) == IF m = 1 THEN 0 ELSE DaysBeforeMonth(y, m - 1) + DaysInMonth(y, m - 1)

ymd2ord(y, m, d) == DaysBeforeYear(y) + DaysBeforeMonth(y, m) + d

MinOrdinal == ymd2ord(1, 1, 1)
MaxDeltaDays == 1000000000 - 1

\* datetime(y, m, d): midnight of that date, or ValueError
datetime(y, m, d) ==
    IF y \in 1..9999 /\ m \in 1..12 /\ d \in 1..DaysInMonth(y, m)
    THEN [raised |-> "none", dt |-> [ord |-> ymd2ord(y, m, d), sec |-> 0]]
    ELSE [raised |-> "ValueError", dt |-> [ord |-> 0, sec |-> 0]]

\* the (year, month, day) of an ordinal, as datetime computes it
ord2ymd(o) ==
    LET n0   == o - 1
        n400 == n0 \div 146097
        r400 == n0 % 146097
        n100 == r400 \div 36524
        r100 == r400 % 36524
        n4   == r100 \div 1461
        r4   == r100 % 1461
        n1   == r4 \div 365
        n    == r4 % 365
        year == n400 * 400 + 1 + n100 * 100 + n4 * 4 + n1
    IN  IF n1 = 4 \/ n100 = 4
        THEN [y |-> year - 1, m |-> 12, d |-> 31]
        ELSE LET mm == CHOOSE k \in 1..12 :
                          /\ DaysBeforeMonth(year, k) <= n
                          /\ n < DaysBeforeMonth(year, k) + DaysInMonth(year, k)
             IN  [y |-> year, m |-> mm, d |-> n - DaysBeforeMonth(year, mm) + 1]

\* zero-padding to a width
RECURSIVE zfill(_, _)
zfill(s, w) == IF Len(s) >= w THEN s ELSE zfill(<<"0">> \o s, w)

\* dt.strftime('%Y-%m-%d')
strftime(dt) ==
    LET c == ord2ymd(dt.ord)
    IN  zfill(str(c.y), 4) \o <<"-">> \o zfill(str(c.m), 2) \o <<"-">> \o zfill(str(c.d), 2)

\* how many characters the month directive  1[0-2]|0[1-9]|[1-9]  takes at p
MonthLen(s, p) ==
    IF At(s, p) = "1" /\ At(s, p + 1) \in {"0", "1", "2"} THEN 2
    ELSE IF At(s, p) = "0" /\ At(s, p + 1) \in NonZeroDigits THEN 2
    ELSE IF At(s, p) \in NonZeroDigits THEN 1
    ELSE 0

\* how many the day directive  3[0-1]|[1-2]\d|0[1-9]|[1-9]| [1-9]  takes at p
DayLen(s, p) ==
    IF At(s, p) = "3" /\ At(s, p + 1) \in {"0", "1"} THEN 2
    ELSE IF At(s, p) \in {"1", "2"} /\ At(s, p + 1) \in DecimalDigits THEN 2
    ELSE IF At(s, p) = "0" /\ At(s, p + 1) \in NonZeroDigits THEN 2
    ELSE IF At(s, p) \in NonZeroDigits THEN 1
    ELSE IF At(s, p) = " " /\ At(s, p + 1) \in NonZeroDigits THEN 2
    ELSE 0

\* datetime.strptime(s, '%Y-%m-%d'): the datetime, or ValueError
strptime(s) ==
    LET bad  == [raised |-> "ValueError", dt |-> [ord |-> 0, sec |-> 0]]
        yOk  == \A i \in 1..4 : At(s, i) \in DecimalDigits
        mLen == MonthLen(s, 6)
        dPos == 6 + mLen + 1
        dLen == DayLen(s, dPos)
    IN  IF ~yOk \/ At(s, 5) # "-" \/ mLen = 0 \/ At(s, 6 + mLen) # "-" \/ dLen = 0
        THEN bad                                  \* does not match format
        ELSE IF dPos + dLen - 1 # Len(s)
        THEN bad                                  \* unconverted data remains
        ELSE datetime(DecValue(SubSeq(s, 1, 4)),
                      DecValue(SubSeq(s, 6, 6 + mLen - 1)),
                      DecValue(lstrip(SubSeq(s, dPos, dPos + dLen - 1))))

\* now - timedelta(days=n): the datetime, or OverflowError
MinusDays(now, n) ==
    IF n > MaxDeltaDays \/ now.ord - n < MinOrdinal
    THEN [raised |-> "OverflowError", dt |-> [ord |-> 0, sec |-> 0]]
    ELSE [raised |-> "none", dt |-> [ord |-> now.ord - n, sec |-> now.sec]]


\* ------------------------------------------------------------ input domains
\* the wall clock read by datetime.now()
ClockValues == {[ord |-> ymd2ord(2026, 11, 5), sec |-> 34200],
                [ord |-> ymd2ord(2024, 3, 1), sec |-> 0]}

\* lines a user may type at either prompt
InputLines ==
    { <<>>,
      <<" ">>,
      <<"0">>,
      <<"1", "4">>,
      <<" ", "1", "4", " ">>,
      <<"9", "9", "9", "9", "9", "9", "9">>,
      <<"SUP2">>,
      <<"a", "b", "c">>,
      <<"2", "0", "2", "4", "-", "0", "1", "-", "0", "5">>,
      <<"2", "0", "2", "4", "-", "1", "-", "5">>,
      <<"2", "0", "2", "4", "-", "0", "1", "-", " ", "5">>,
      <<"2", "0", "2", "4", "-", "0", "2", "-", "2", "9">>,
      <<"2", "0", "2", "3", "-", "0", "2", "-", "2", "9">>,
      <<"2", "0", "2", "4", "-", "1", "3", "-", "4", "0">> }

\* an environment value: unset (os.getenv gives None) or a string
Unset == [none |-> TRUE, s |-> <<>>]
Str(s) == [none |-> FALSE, s |-> s]

VarNames == <<"JIRA_URL", "JIRA_EMAIL", "JIRA_API_TOKEN", "GITHUB_TOKEN", "GITHUB_USERNAME">>

UrlValues == {Unset, Str(<<>>), Str(<<"/">>), Str(<<"h">>), Str(<<"h", "/">>),
              Str(<<"h", "/", "/">>)}
SecretValues == {Unset, Str(<<>>), Str(<<"v">>)}

\* the process environments a run may start in
Environments ==
    { e \in [{VarNames[i] : i \in 1..5} -> UrlValues \cup SecretValues] :
        /\ e["JIRA_URL"] \in UrlValues
        /\ \A i \in 2..5 : e[VarNames[i]] \in SecretValues }

\* os.getenv(name, default)
getenv(e, name, default) == IF e[name].none THEN default ELSE e[name]

\* Python truthiness of a str-or-None
Truthy(v) == ~v.none /\ v.s # <<>>

NoEnviron == [n \in {VarNames[i] : i \in 1..5} |-> Unset]
NoDate == [ord |-> 0, sec |-> 0]
NoSelf == [jira_url |-> Unset, jira_email |-> Unset, jira_token |-> Unset,
           github_token |-> Unset, github_username |-> Unset]

Line(kind, text) == [kind |-> kind, text |-> text]

\* ------------------------------------------------------------------- state
VARIABLES
    pc,            \* where the run is
    clock,         \* what datetime.now() returns
    concise,       \* args.concise
    typed,         \* the line input() returned last, before .strip()
    date_input,    \* the prompt function's local date_input
    retries,       \* lines the running prompt has rejected
    start_date,    \* main's start_date, then self.start_date
    end_date,      \* main's end_date, then self.end_date
    environ,       \* the process environment, once __init__ has read it
    self,          \* the SprintSummary object's configuration fields
    tickets,       \* print_*'s local tickets
    prs,           \* print_*'s local prs
    jira_response, \* what requests.get gave the ticket fetch
    gh_response,   \* what requests.get gave the PR-review fetch
    http,          \* the HTTP requests issued so far
    out,           \* the lines written to stdout so far
    exc,           \* the uncaught exception that ended the run, or "none"
    raised_in,     \* the function it was raised in
    exit_code      \* the process's exit status, -1 while it runs

vars == <<pc, clock, concise, typed, date_input, retries, start_date, end_date, environ, self,
          tickets, prs, jira_response, gh_response, http, out, exc, raised_in, exit_code>>

NoResponse == [kind |-> "none", status |-> 0, has_list |-> FALSE, list |-> <<>>]

Init ==
    /\ pc = "main"
    /\ clock \in ClockValues
    /\ concise = FALSE
    /\ typed = <<>>
    /\ date_input = <<>>
    /\ retries = 0
    /\ start_date = NoDate
    /\ end_date = NoDate
    /\ environ = NoEnviron
    /\ self = NoSelf
    /\ tickets = <<>>
    /\ prs = <<>>
    /\ jira_response = NoResponse
    /\ gh_response = NoResponse
    /\ http = <<>>
    /\ out = <<>>
    /\ exc = "none"
    /\ raised_in = "none"
    /\ exit_code = -1

\* an uncaught exception: the traceback ends the process with status 1
Crash(e, where) ==
    /\ pc' = "exited"
    /\ exc' = e
    /\ raised_in' = where
    /\ exit_code' = 1

\* variant of AfterParseArgs: the object is built before the prompts run
AfterParseArgs_ValidateFirst == "construct"

\* the order of main's three statements after parse_args
AfterParseArgs == "get_start_date"
AfterStartDate == "get_end_date"
AfterEndDate == "construct"

\* main: parser.parse_args()
ParseArgs ==
    /\ pc = "main"
    /\ \E flag \in BOOLEAN : concise' = flag
    /\ pc' = AfterParseArgs
    /\ UNCHANGED <<clock, typed, date_input, retries, start_date, end_date, environ, self, tickets,
                   prs, jira_response, gh_response, http, out, exc, raised_in, exit_code>>

\* ----------------------------------------------------------- get_start_date
StartPromptText == Line("input", <<"Start date (YYYY-MM-DD) or days back (e.g., '14'): ">>)
EndPromptText == Line("input", <<"End date (YYYY-MM-DD) or press Enter for today: ">>)

\* what one pass of get_start_date's loop does with the stripped line s:
\* "return" with a date, "again", or "raise"
StartResolve(s, now) ==
    IF isdigit(s)
    THEN LET n == int(s)
             d == MinusDays(now, n.val)
         IN  IF n.raised # "none" THEN [act |-> "raise", e |-> n.raised, dt |-> NoDate]
             ELSE IF d.raised # "none" THEN [act |-> "raise", e |-> d.raised, dt |-> NoDate]
             ELSE [act |-> "return", e |-> "none", dt |-> d.dt]
    ELSE LET p == strptime(s)
         IN  IF p.raised = "none"
             THEN [act |-> "return", e |-> "none", dt |-> p.dt]
             ELSE [act |-> "again", e |-> "none", dt |-> NoDate]

\* variant of EndResolve: the days-back branch of the start prompt copied in
EndResolve_DaysBackToo(s, now) ==
    IF s = <<>>
    THEN [act |-> "return", e |-> "none", dt |-> now]
    ELSE IF isdigit(s)
    THEN StartResolve(s, now)
    ELSE LET p == strptime(s)
         IN  IF p.raised = "none"
             THEN [act |-> "return", e |-> "none", dt |-> p.dt]
             ELSE [act |-> "again", e |-> "none", dt |-> NoDate]

\* what one pass of get_end_date's loop does with the stripped line s
EndResolve(s, now) ==
    IF s = <<>>
    THEN [act |-> "return", e |-> "none", dt |-> now]
    ELSE LET p == strptime(s)
         IN  IF p.raised = "none"
             THEN [act |-> "return", e |-> "none", dt |-> p.dt]
             ELSE [act |-> "again", e |-> "none", dt |-> NoDate]

GetStartDateEnter ==
    /\ pc = "get_start_date"
    /\ out' = out \o <<Line("start_title", <<"Enter the sprint start date">>), Line("blank", <<>>)>>
    /\ pc' = "start_loop"
    /\ UNCHANGED <<clock, concise, typed, date_input, retries, start_date, end_date, environ, self,
                   tickets, prs, jira_response, gh_response, http, exc, raised_in, exit_code>>

\* one pass of the while loop of get_start_date
StartPrompt ==
    /\ pc = "start_loop"
    /\ \E line \in InputLines :
         LET s == strip(line)
             r == StartResolve(s, clock)
         IN  /\ typed' = line
             /\ date_input' = s
             /\ CASE r.act = "return" ->
                       /\ start_date' = r.dt
                       /\ out' = out \o <<StartPromptText,
                                          Line("using_start", <<"Using start date: ">> \o strftime(r.dt)),
                                          Line("blank", <<>>)>>
                       /\ pc' = "start_return"
                       /\ UNCHANGED <<retries, exc, raised_in, exit_code>>
                  [] r.act = "again" ->
                       /\ retries < MaxRetries
                       /\ retries' = retries + 1
                       /\ out' = out \o <<StartPromptText,
                                          Line("invalid_start", <<"Invalid format. Please use YYYY-MM-DD or enter number of days back.">>),
                                          Line("blank", <<>>)>>
                       /\ UNCHANGED <<pc, start_date, exc, raised_in, exit_code>>
                  [] r.act = "raise" ->
                       /\ Crash(r.e, "get_start_date")
                       /\ out' = out \o <<StartPromptText>>
                       /\ UNCHANGED <<retries, start_date>>
    /\ UNCHANGED <<clock, concise, end_date, environ, self, tickets, prs, jira_response, gh_response, http>>

\* get_start_date returns to main: its locals are gone
StartReturn ==
    /\ pc = "start_return"
    /\ typed' = <<>>
    /\ date_input' = <<>>
    /\ retries' = 0
    /\ pc' = AfterStartDate
    /\ UNCHANGED <<clock, concise, start_date, end_date, environ, self, tickets, prs, jira_response,
                   gh_response, http, out, exc, raised_in, exit_code>>

\* ------------------------------------------------------------- get_end_date
GetEndDateEnter ==
    /\ pc = "get_end_date"
    /\ out' = out \o <<Line("end_title", <<"Enter the sprint end date">>), Line("blank", <<>>)>>
    /\ pc' = "end_loop"
    /\ UNCHANGED <<clock, concise, typed, date_input, retries, start_date, end_date, environ, self,
                   tickets, prs, jira_response, gh_response, http, exc, raised_in, exit_code>>

\* one pass of the while loop of get_end_date
EndPrompt ==
    /\ pc = "end_loop"
    /\ \E line \in InputLines :
         LET s == strip(line)
             r == EndResolve(s, clock)
         IN  /\ typed' = line
             /\ date_input' = s
             /\ CASE r.act = "return" ->
                       /\ end_date' = r.dt
                       /\ out' = out \o <<EndPromptText,
                                          Line("using_end", <<"Using end date: ">> \o strftime(r.dt)),
                                          Line("blank", <<>>)>>
                       /\ pc' = "end_return"
                       /\ UNCHANGED <<retries, exc, raised_in, exit_code>>
                  [] r.act = "again" ->
                       /\ retries < MaxRetries
                       /\ retries' = retries + 1
                       /\ out' = out \o <<EndPromptText,
                                          Line("invalid_end", <<"Invalid format. Please use YYYY-MM-DD or press Enter for today.">>),
                                          Line("blank", <<>>)>>
                       /\ UNCHANGED <<pc, end_date, exc, raised_in, exit_code>>
                  [] r.act = "raise" ->
                       /\ Crash(r.e, "get_end_date")
                       /\ out' = out \o <<EndPromptText>>
                       /\ UNCHANGED <<retries, end_date>>
    /\ UNCHANGED <<clock, concise, start_date, environ, self, tickets, prs, jira_response, gh_response, http>>

\* get_end_date returns to main
EndReturn ==
    /\ pc = "end_return"
    /\ typed' = <<>>
    /\ date_input' = <<>>
    /\ retries' = 0
    /\ pc' = AfterEndDate
    /\ UNCHANGED <<clock, concise, start_date, end_date, environ, self, tickets, prs, jira_response,
                   gh_response, http, out, exc, raised_in, exit_code>>

\* ------------------------------------------------- SprintSummary.__init__
\* variant of StripTrailingSlashes: removes one trailing slash at most
StripTrailingSlashes_Once(url) ==
    IF url # <<>> /\ url[Len(url)] = "/" THEN SubSeq(url, 1, Len(url) - 1) ELSE url

\* jira_url.rstrip('/')
StripTrailingSlashes(url) == rstripChars(url, {"/"})

\* the fields __init__ sets from the environment e
NewSelf(e) ==
    [jira_url        |-> Str(StripTrailingSlashes(getenv(e, "JIRA_URL", Str(<<>>)).s)),
     jira_email      |-> e["JIRA_EMAIL"],
     jira_token      |-> e["JIRA_API_TOKEN"],
     github_token    |-> e["GITHUB_TOKEN"],
     github_username |-> e["GITHUB_USERNAME"]]

\* variant of MissingVars: stops at the first missing value
MissingVars_FirstOnly(o) ==
    IF ~Truthy(o.jira_url) THEN <<"JIRA_URL">>
    ELSE IF ~Truthy(o.jira_email) THEN <<"JIRA_EMAIL">>
    ELSE IF ~Truthy(o.jira_token) THEN <<"JIRA_API_TOKEN">>
    ELSE IF ~Truthy(o.github_token) THEN <<"GITHUB_TOKEN">>
    ELSE IF ~Truthy(o.github_username) THEN <<"GITHUB_USERNAME">>
    ELSE <<>>

\* validate_config's list missing, in the order it is built
MissingVars(o) ==
    (IF ~Truthy(o.jira_url) THEN <<"JIRA_URL">> ELSE <<>>)
    \o (IF ~Truthy(o.jira_email) THEN <<"JIRA_EMAIL">> ELSE <<>>)
    \o (IF ~Truthy(o.jira_token) THEN <<"JIRA_API_TOKEN">> ELSE <<>>)
    \o (IF ~Truthy(o.github_token) THEN <<"GITHUB_TOKEN">> ELSE <<>>)
    \o (IF ~Truthy(o.github_username) THEN <<"GITHUB_USERNAME">> ELSE <<>>)

\* what validate_config prints when missing is not empty
MissingReport(missing) ==
    <<Line("missing_title", <<"Missing required environment variables:">>)>>
    \o [i \in 1..Len(missing) |-> Line("missing_var", <<"   - ", missing[i]>>)]
    \o <<Line("missing_hint", <<"\nPlease set these variables and try again.">>)>>

\* main: summary = SprintSummary(start_date, end_date), validate_config included
Construct ==
    /\ pc = "construct"
    /\ \E e \in Environments :
         LET o == NewSelf(e)
             missing == MissingVars(o)
         IN  /\ environ' = e
             /\ self' = o
             /\ IF missing # <<>>
                THEN /\ out' = out \o MissingReport(missing)
                     /\ pc' = "exited"
                     /\ exit_code' = 1          \* sys.exit(1)
                ELSE /\ pc' = "print_head"
                     /\ UNCHANGED <<out, exit_code>>
    /\ UNCHANGED <<clock, concise, typed, date_input, retries, start_date, end_date, tickets,
                   prs, jira_response, gh_response, http, exc, raised_in>>

\* ------------------------------------------------------------ HTTP responses
AllFields == {"key", "fields", "summary", "status", "name"}
Issue1 == [present |-> AllFields, key |-> <<"K", "-", "1">>, summary |-> <<"fix login">>,
           status |-> <<"Done">>]
Issue2 == [present |-> AllFields, key |-> <<"K", "-", "2">>, summary |-> <<"add tests">>,
           status |-> <<"Done">>]
\* an issue whose fields object carries no summary
IssueNoSummary == [Issue1 EXCEPT !.present = AllFields \ {"summary"}]
IssuePool == {Issue1, Issue2, IssueNoSummary}

SeqsUpTo(S, n) == UNION {[1..k -> S] : k \in 0..n}

ConnectionError == [kind |-> "ConnectionError", status |-> 0, has_list |-> FALSE, list |-> <<>>]
Response(status, has_list, list) ==
    [kind |-> "response", status |-> status, has_list |-> has_list, list |-> list]

\* what the issue tracker may answer: no answer, an error status, a 200 with a
\* JSON object with or without "issues", a 300 (which requests does not follow) with a JSON object
JiraResponses ==
    {ConnectionError, Response(401, FALSE, <<>>), Response(500, FALSE, <<>>),
     Response(200, FALSE, <<>>), Response(300, TRUE, <<Issue1>>)}
    \cup {Response(200, TRUE, l) : l \in SeqsUpTo(IssuePool, MaxIssues)}

ItemFields == {"number", "title", "repository_url", "state", "html_url", "updated_at"}
Item1 == [present |-> ItemFields, number |-> 7, title |-> <<"Fix race">>,
          repository_url |-> <<"u", "/", "o", "/", "r">>, state |-> "closed",
          html_url |-> <<"g/o/r/pull/7">>, updated_at |-> <<"2024-01-06T10:00:00Z">>]
Item2 == [present |-> ItemFields, number |-> 12, title |-> <<"Add docs">>,
          repository_url |-> <<"u", "/", "o", "/", "s">>, state |-> "open",
          html_url |-> <<"g/o/s/pull/12">>, updated_at |-> <<"2024-01-07T10:00:00Z">>]
\* an item that carries no html_url
ItemNoUrl == [Item1 EXCEPT !.present = ItemFields \ {"html_url"}]

GithubResponses ==
    {ConnectionError, Response(403, FALSE, <<>>), Response(200, FALSE, <<>>),
     Response(200, TRUE, <<>>), Response(200, TRUE, <<Item1>>),
     Response(200, TRUE, <<Item2, Item1>>), Response(200, TRUE, <<ItemNoUrl>>),
     Response(300, TRUE, <<Item1>>)}

\* response.raise_for_status() raises HTTPError
RaisesForStatus(r) == r.status >= 400 /\ r.status < 600

\* variant of RequestException: raise_for_status() is not called
RequestException_TransportOnly(r) ==
    IF r.kind = "ConnectionError" THEN "ConnectionError" ELSE "none"

\* the RequestException the try block catches, or "none"
RequestException(r) ==
    IF r.kind = "ConnectionError" THEN "ConnectionError"
    ELSE IF RaisesForStatus(r) THEN "HTTPError"
    ELSE "none"

\* data.get(name, [])
GetList(r) == IF r.has_list THEN r.list ELSE <<>>

\* ----------------------------------------------- get_completed_jira_tickets
JiraRequest(o, sd, ed) ==
    [service |-> "jira",
     url     |-> o.jira_url.s \o <<"/rest/api/3/search/jql">>,
     query   |-> <<"assignee = currentUser() AND status = Done AND updated >= \"">>
                 \o strftime(sd) \o <<"\" AND updated <= \"">> \o strftime(ed) \o <<"\"">>]

\* the dict appended for one issue
Ticket(issue, o) ==
    [key     |-> issue.key,
     summary |-> issue.summary,
     status  |-> issue.status,
     url     |-> o.jira_url.s \o <<"/browse/">> \o issue.key]

\* what get_completed_jira_tickets does with the response r
JiraResult(r, o) ==
    LET e == RequestException(r)
        issues == GetList(r)
    IN  IF e # "none"
        THEN [raised |-> "none", value |-> <<>>,
              printed |-> <<Line("jira_error", <<"Error fetching JIRA tickets: ", e>>)>>]
        ELSE IF \E i \in 1..Len(issues) : ~(AllFields \subseteq issues[i].present)
        THEN [raised |-> "KeyError", value |-> <<>>, printed |-> <<>>]
        ELSE [raised |-> "none", value |-> [i \in 1..Len(issues) |-> Ticket(issues[i], o)],
              printed |-> <<>>]

\* ---------------------------------------------------- get_github_pr_reviews
GithubRequest(o, sd, ed) ==
    [service |-> "github",
     url     |-> <<"https://api.github.com/search/issues">>,
     query   |-> <<"is:pr reviewed-by:">> \o o.github_username.s \o <<" updated:">>
                 \o strftime(sd) \o <<"..">> \o strftime(ed)]

RECURSIVE LastSegment(_)
\* url.split('/')[-1]
LastSegment(url) ==
    IF url = <<>> \/ url[Len(url)] = "/" THEN <<>>
    ELSE LastSegment(SubSeq(url, 1, Len(url) - 1)) \o <<url[Len(url)]>>

\* the dict appended for one search item
PullRequest(item) ==
    [number  |-> item.number,
     title   |-> item.title,
     repo    |-> LastSegment(item.repository_url),
     state   |-> item.state,
     url     |-> item.html_url,
     updated |-> item.updated_at]

\* what get_github_pr_reviews does with the response r
GithubResult(r) ==
    LET e == RequestException(r)
        items == GetList(r)
    IN  IF e # "none"
        THEN [raised |-> "none", value |-> <<>>,
              printed |-> <<Line("github_error", <<"Error fetching GitHub PR reviews: ", e>>)>>]
        ELSE IF \E i \in 1..Len(items) : ~(ItemFields \subseteq items[i].present)
        THEN [raised |-> "KeyError", value |-> <<>>, printed |-> <<>>]
        ELSE [raised |-> "none", value |-> [i \in 1..Len(items) |-> PullRequest(items[i])],
              printed |-> <<>>]

\* ------------------------------------------------------------------ renderers
Rule(c) == Line("rule", <<c, "*60">>)
Blank == Line("blank", <<>>)

\* print_summary / print_concise_summary, up to the call of the ticket fetch
HeadLines(c, sd, ed) ==
    IF c
    THEN <<Line("jira_title", <<"Completed JIRA Tickets:">>)>>
    ELSE <<Rule("="),
           Line("banner", <<"SPRINT SUMMARY">>),
           Line("range", <<"Date Range: ">> \o strftime(sd) \o <<" to ">> \o strftime(ed)),
           Rule("="),
           Blank,
           Line("jira_title", <<"COMPLETED JIRA TICKETS">>),
           Rule("-")>>

RECURSIVE Flatten(_)
Flatten(ss) == IF ss = <<>> THEN <<>> ELSE Head(ss) \o Flatten(Tail(ss))

\* variant of TicketLines: the count line is printed for an empty list too
TicketLines_TotalOnEmpty(c, ts) ==
    IF c
    THEN [i \in 1..Len(ts) |->
            Line("ticket", ts[i].key \o <<": ">> \o ts[i].summary \o <<" - ">> \o ts[i].url)]
    ELSE Flatten([i \in 1..Len(ts) |->
            <<Line("ticket", ts[i].key \o <<": ">> \o ts[i].summary),
              Line("ticket_url", <<"   ">> \o ts[i].url),
              Blank>>])
         \o <<Line("ticket_total", <<"Total: ">> \o str(Len(ts)) \o <<" ticket(s)">>)>>

\* the lines of the ticket section that follow the fetch
TicketLines(c, ts) ==
    IF c
    THEN IF ts # <<>>
         THEN [i \in 1..Len(ts) |->
                 Line("ticket", ts[i].key \o <<": ">> \o ts[i].summary \o <<" - ">> \o ts[i].url)]
         ELSE <<Line("no_tickets", <<"None">>)>>
    ELSE IF ts # <<>>
         THEN Flatten([i \in 1..Len(ts) |->
                 <<Line("ticket", ts[i].key \o <<": ">> \o ts[i].summary),
                   Line("ticket_url", <<"   ">> \o ts[i].url),
                   Blank>>])
              \o <<Line("ticket_total", <<"Total: ">> \o str(Len(ts)) \o <<" ticket(s)">>)>>
         ELSE <<Line("no_tickets", <<"No completed tickets found in date range.">>)>>

\* from the end of the ticket section to the call of the PR-review fetch
MiddleLines(c) ==
    IF c
    THEN <<Blank, Line("github_title", <<"GitHub PR Reviews:">>)>>
    ELSE <<Blank, Rule("="), Blank, Line("github_title", <<"GITHUB PR REVIEWS">>), Rule("-")>>

\* the lines of the PR-review section that follow the fetch
PrLines(c, ps) ==
    IF c
    THEN IF ps # <<>>
         THEN [i \in 1..Len(ps) |->
                 Line("pr", ps[i].repo \o <<" #">> \o str(ps[i].number) \o <<": ">>
                            \o ps[i].title \o <<" - ">> \o ps[i].url)]
         ELSE <<Line("no_prs", <<"None">>)>>
    ELSE IF ps # <<>>
         THEN Flatten([i \in 1..Len(ps) |->
                 <<Line("pr", <<IF ps[i].state = "closed" THEN "closed-glyph" ELSE "open-glyph">>
                              \o <<" [">> \o ps[i].repo \o <<"] #">> \o str(ps[i].number)
                              \o <<": ">> \o ps[i].title),
                   Line("pr_url", <<"   ">> \o ps[i].url),
                   Blank>>])
              \o <<Line("pr_total", <<"Total: ">> \o str(Len(ps)) \o <<" PR(s) reviewed">>)>>
         ELSE <<Line("no_prs", <<"No PR reviews found in date range.">>)>>

\* what print_summary prints after the PR-review section
TailLines(c) == IF c THEN <<>> ELSE <<Blank, Rule("=")>>

\* variant of AfterHead: the ticket section is printed without fetching
AfterHead_SkipFetch == "print_tickets"

\* where main goes once the SprintSummary object is built, and after each step
AfterHead == "fetch_jira"
AfterTickets == "fetch_github"

\* the printing that precedes the ticket fetch
PrintHead ==
    /\ pc = "print_head"
    /\ out' = out \o HeadLines(concise, start_date, end_date)
    /\ pc' = AfterHead
    /\ UNCHANGED <<clock, concise, typed, date_input, retries, start_date, end_date, environ,
                   self, tickets, prs, jira_response, gh_response, http, exc, raised_in,
                   exit_code>>

\* tickets = self.get_completed_jira_tickets()
FetchJira ==
    /\ pc = "fetch_jira"
    /\ \E r \in JiraResponses :
         LET res == JiraResult(r, self)
         IN  /\ jira_response' = r
             /\ http' = Append(http, JiraRequest(self, start_date, end_date))
             /\ out' = out \o res.printed
             /\ IF res.raised # "none"
                THEN /\ Crash(res.raised, "get_completed_jira_tickets")
                     /\ UNCHANGED tickets
                ELSE /\ tickets' = res.value
                     /\ pc' = "print_tickets"
                     /\ UNCHANGED <<exc, raised_in, exit_code>>
    /\ UNCHANGED <<clock, concise, typed, date_input, retries, start_date, end_date, environ,
                   self, prs, gh_response>>

\* the ticket section, and the printing that precedes the PR-review fetch
PrintTickets ==
    /\ pc = "print_tickets"
    /\ out' = out \o TicketLines(concise, tickets) \o MiddleLines(concise)
    /\ pc' = AfterTickets
    /\ UNCHANGED <<clock, concise, typed, date_input, retries, start_date, end_date, environ,
                   self, tickets, prs, jira_response, gh_response, http, exc, raised_in,
                   exit_code>>

\* prs = self.get_github_pr_reviews()
FetchGithub ==
    /\ pc = "fetch_github"
    /\ \E r \in GithubResponses :
         LET res == GithubResult(r)
         IN  /\ gh_response' = r
             /\ http' = Append(http, GithubRequest(self, start_date, end_date))
             /\ out' = out \o res.printed
             /\ IF res.raised # "none"
                THEN /\ Crash(res.raised, "get_github_pr_reviews")
                     /\ UNCHANGED prs
                ELSE /\ prs' = res.value
                     /\ pc' = "print_prs"
                     /\ UNCHANGED <<exc, raised_in, exit_code>>
    /\ UNCHANGED <<clock, concise, typed, date_input, retries, start_date, end_date, environ,
                   self, tickets, jira_response>>

\* the PR-review section; main returns and the process ends with status 0
PrintPrs ==
    /\ pc = "print_prs"
    /\ out' = out \o PrLines(concise, prs) \o TailLines(concise)
    /\ pc' = "exited"
    /\ exit_code' = 0
    /\ UNCHANGED <<clock, concise, typed, date_input, retries, start_date, end_date, environ,
                   self, tickets, prs, jira_response, gh_response, http, exc, raised_in>>

Next ==
    \/ ParseArgs
    \/ GetStartDateEnter
    \/ StartPrompt
    \/ StartReturn
    \/ GetEndDateEnter
    \/ EndPrompt
    \/ EndReturn
    \/ Construct
    \/ PrintHead
    \/ FetchJira
    \/ PrintTickets
    \/ FetchGithub
    \/ PrintPrs

Spec == Init /\ [][Next]_vars


\* ==================================================================== claims
\* ---- vocabulary of the claims
HasLine(l) == \E i \in 1..Len(out) : out[i] = l
HasKind(k) == \E i \in 1..Len(out) : out[i].kind = k
OfKinds(ks) == SelectSeq(out, LAMBDA l : l.kind \in ks)

PromptFunctions == {"get_start_date", "get_end_date"}
\* __init__ has read the environment and run validate_config
ConfigRead ==
    \/ pc \in {"print_head", "fetch_jira", "print_tickets", "fetch_github", "print_prs"}
    \/ pc = "exited" /\ raised_in \notin PromptFunctions
\* a required value is missing or empty in the environment
ConfigMissing(name) == environ[name].none \/ environ[name].s = <<>>
MissingNames == {n \in {VarNames[i] : i \in 1..5} : ConfigMissing(n)}

JiraIssued == \E i \in 1..Len(http) : http[i].service = "jira"
GithubIssued == \E i \in 1..Len(http) : http[i].service = "github"
JiraAnswered == jira_response # NoResponse
GithubAnswered == gh_response # NoResponse
\* the fetch returned to its caller
JiraReturned == JiraAnswered /\ raised_in # "get_completed_jira_tickets"
GithubReturned == GithubAnswered /\ raised_in # "get_github_pr_reviews"

Is2xx(r) == r.kind = "response" /\ r.status \in 200..299
\* a transport failure, or a 4xx or 5xx status
FailedHard(r) == r.kind = "ConnectionError" \/ (r.kind = "response" /\ r.status \in 400..599)
\* a transport failure, or any status outside 2xx
FailedNon2xx(r) == r.kind = "ConnectionError" \/ (r.kind = "response" /\ ~Is2xx(r))

TicketBodyKinds == {"ticket", "ticket_url", "ticket_total", "no_tickets"}
PrBodyKinds == {"pr", "pr_url", "pr_total", "no_prs"}
ReportKinds == TicketBodyKinds \cup PrBodyKinds \cup {"banner", "range", "rule", "jira_title", "github_title"}
\* the two sections have been printed
TicketSectionPrinted == pc \in {"fetch_github", "print_prs"} \/ (pc = "exited" /\ GithubIssued)
PrSectionPrinted == pc = "exited" /\ exit_code = 0
ReportComplete ==
    /\ PrSectionPrinted
    /\ HasKind("jira_title") /\ HasKind("github_title")
    /\ OfKinds(TicketBodyKinds) # <<>> /\ OfKinds(PrBodyKinds) # <<>>

\* a prompt has consumed at least one line, which typed still holds
StartLineRead == pc = "start_return" \/ (pc = "start_loop" /\ retries > 0)
                 \/ (pc = "exited" /\ raised_in = "get_start_date")
EndLineRead == pc = "end_return" \/ (pc = "end_loop" /\ retries > 0)
               \/ (pc = "exited" /\ raised_in = "get_end_date")

\* s consists only of the digits 0-9
DigitsOnly(s) == s # <<>> /\ \A i \in 1..Len(s) : s[i] \in DecimalDigits
\* s is YYYY-MM-DD, zero-padded, and names a calendar date
IsIsoDate(s) ==
    /\ Len(s) = 10
    /\ \A i \in {1, 2, 3, 4, 6, 7, 9, 10} : s[i] \in DecimalDigits
    /\ s[5] = "-" /\ s[8] = "-"
    /\ LET y == DecValue(SubSeq(s, 1, 4))
           m == DecValue(SubSeq(s, 6, 7))
           d == DecValue(SubSeq(s, 9, 10))
       IN  y >= 1 /\ m \in 1..12 /\ d \in 1..DaysInMonth(y, m)
\* midnight of the date an ISO date names
IsoMidnight(s) ==
    [ord |-> ymd2ord(DecValue(SubSeq(s, 1, 4)), DecValue(SubSeq(s, 6, 7)),
                     DecValue(SubSeq(s, 9, 10))),
     sec |-> 0]

\* the ways a month or day number n may be written in a lenient date
Written(n, spaced) ==
    {str(n), zfill(str(n), 2)} \cup (IF spaced /\ n < 10 THEN {<<" ">> \o str(n)} ELSE {})
\* the calendar dates [y, m, d] that s writes as YYYY-M-D: a four-digit year,
\* month and day with or without a leading zero, a one-digit day possibly
\* after a space
LenientDates(s) ==
    IF Len(s) < 4 \/ \E i \in 1..4 : s[i] \notin DecimalDigits THEN {}
    ELSE LET y == DecValue(SubSeq(s, 1, 4))
         IN  {c \in [y : {y}, m : 1..12, d : 1..31] :
                /\ y >= 1 /\ c.d <= DaysInMonth(y, c.m)
                /\ \E ms \in Written(c.m, FALSE), ds \in Written(c.d, TRUE) :
                      s = SubSeq(s, 1, 4) \o <<"-">> \o ms \o <<"-">> \o ds}
\* s without the blanks around it
Trimmed(s) ==
    LET first == {i \in 1..Len(s) : s[i] # " "}
    IN  IF first = {} THEN <<>>
        ELSE SubSeq(s, CHOOSE i \in first : \A j \in first : i <= j,
                       CHOOSE i \in first : \A j \in first : i >= j)

\* ---- C1
\* C1: when one or more of the five required configuration values is missing
\* or empty, the run prints the name of every missing variable, ends with
\* exit code 1, and never issues an HTTP request.
C1_MissingConfigIsFatal ==
    (ConfigRead /\ MissingNames # {}) =>
        /\ pc = "exited" /\ exit_code = 1 /\ exc = "none"
        /\ http = <<>>
        /\ \A n \in MissingNames : HasLine(Line("missing_var", <<"   - ", n>>))

C1_Witness ==
    /\ ConfigRead /\ Cardinality(MissingNames) >= 2
    /\ pc = "exited" /\ exit_code = 1
    /\ HasKind("missing_var")

\* ---- C2
\* C2 as stated: a transport failure or any non-2xx response makes the fetch
\* print a diagnostic and return an empty sequence without raising.
C2_Non2xxIsEmpty ==
    /\ (JiraAnswered /\ FailedNon2xx(jira_response)) =>
          JiraReturned /\ tickets = <<>> /\ HasKind("jira_error")
    /\ (GithubAnswered /\ FailedNon2xx(gh_response)) =>
          GithubReturned /\ prs = <<>> /\ HasKind("github_error")

\* C2 amended: a transport failure or a 4xx/5xx response makes the fetch print
\* a diagnostic and return an empty sequence without raising; the other fetch
\* is still issued and the rest of the report is still rendered, for every
\* combination of success and failure of the two fetches.
C2_FetchFailureIsNonFatal ==
    /\ (JiraAnswered /\ FailedHard(jira_response)) =>
          /\ JiraReturned /\ tickets = <<>>
          /\ \E e \in {"ConnectionError", "HTTPError"} :
                HasLine(Line("jira_error", <<"Error fetching JIRA tickets: ", e>>))
          /\ pc \in {"print_tickets", "fetch_github", "print_prs", "exited"}
          /\ pc = "exited" => GithubIssued
          /\ (pc = "exited" /\ GithubReturned) => exit_code = 0 /\ ReportComplete
    /\ (GithubAnswered /\ FailedHard(gh_response)) =>
          /\ GithubReturned /\ prs = <<>>
          /\ \E e \in {"ConnectionError", "HTTPError"} :
                HasLine(Line("github_error", <<"Error fetching GitHub PR reviews: ", e>>))
          /\ JiraIssued /\ JiraReturned
          /\ pc \in {"print_prs", "exited"}
          /\ pc = "exited" => exit_code = 0 /\ ReportComplete

C2_Witness ==
    /\ pc = "exited" /\ exit_code = 0
    /\ jira_response.kind = "ConnectionError"
    /\ gh_response.kind = "response" /\ gh_response.status = 403
    /\ Len(http) = 2

\* ---- C3
\* C3: neither prompt ever raises or aborts, whatever lines it is given: a
\* run never ends inside get_start_date or get_end_date.
C3_PromptsNeverRaise == ~(pc = "exited" /\ raised_in \in PromptFunctions)

\* ---- C4
\* C4: the start-date prompt resolves every input consisting only of digits N
\* to now minus N days.
C4_DigitsMeanDaysBack ==
    (StartLineRead /\ DigitsOnly(typed)) =>
        /\ pc = "start_return"
        /\ start_date = [ord |-> clock.ord - DecValue(typed), sec |-> clock.sec]

\* ---- C5
\* C5 as stated: the end-date prompt resolves an empty input to now, an input
\* matching YYYY-MM-DD to that date at midnight, and re-prompts on any other
\* input.
C5_OnlyEmptyOrIsoAccepted ==
    EndLineRead =>
        IF typed = <<>> THEN pc = "end_return" /\ end_date = clock
        ELSE IF IsIsoDate(typed) THEN pc = "end_return" /\ end_date = IsoMidnight(typed)
        ELSE pc = "end_loop" /\ HasKind("invalid_end")

\* C5 amended: the end-date prompt first strips the blanks around the line;
\* an empty rest resolves to now, a rest written YYYY-M-D (month and day with
\* or without a leading zero) that names a calendar date resolves to that date
\* at midnight, and any other input, a digit-only day-count included,
\* re-prompts.
C5_EndPromptResolves ==
    EndLineRead =>
        LET s == Trimmed(typed)
            ds == LenientDates(s)
        IN  IF s = <<>> THEN pc = "end_return" /\ end_date = clock
            ELSE IF ds # {}
            THEN /\ pc = "end_return"
                 /\ \E c \in ds : end_date = [ord |-> ymd2ord(c.y, c.m, c.d), sec |-> 0]
            ELSE pc = "end_loop" /\ HasKind("invalid_end") /\ end_date = NoDate

C5_Witness ==
    /\ pc = "end_return" /\ HasKind("invalid_end")
    /\ typed = <<"2", "0", "2", "4", "-", "1", "-", "5">>
    /\ end_date = [ord |-> ymd2ord(2024, 1, 5), sec |-> 0]

\* ---- C6
\* C6 as stated: no start-date or end-date prompt is shown before the five
\* configuration values have been checked.
C6_ValidateBeforePrompts == HasKind("input") => ConfigRead

\* C6 amended: the five configuration values are checked when the
\* SprintSummary object is built, after both date prompts have returned and
\* before any HTTP request or report line; a run with missing configuration
\* exits with code 1 after prompting for both dates.
C6_ValidateAfterPrompts ==
    /\ ConfigRead =>
          /\ HasKind("using_start") /\ HasKind("using_end")
          /\ start_date # NoDate /\ end_date # NoDate
    /\ (http # <<>> \/ \E k \in ReportKinds : HasKind(k)) => ConfigRead /\ MissingNames = {}

C6_Witness ==
    /\ pc = "exited" /\ exit_code = 1 /\ exc = "none"
    /\ MissingNames # {}
    /\ HasKind("using_start") /\ HasKind("using_end")
    /\ http = <<>>

\* ---- C7
\* C7 as stated: no line of the report is printed while a fetch is still
\* pending or not yet issued.
C7_FetchesBeforeReport ==
    (\E k \in ReportKinds : HasKind(k)) => JiraAnswered /\ GithubAnswered

\* C7 amended: in both modes each section's entries, empty marker and count
\* are printed only after that section's own fetch has returned; the titles
\* are printed before the fetch is issued, and the ticket section is printed
\* before the PR-review fetch is issued.
C7_SectionAfterItsFetch ==
    /\ (\E k \in TicketBodyKinds : HasKind(k)) => JiraReturned
    /\ (\E k \in PrBodyKinds : HasKind(k)) => GithubReturned /\ JiraReturned
    /\ JiraIssued => HasKind("jira_title")
    /\ GithubIssued => HasKind("github_title") /\ OfKinds(TicketBodyKinds) # <<>>

C7_Witness ==
    /\ pc = "fetch_github"
    /\ OfKinds(TicketBodyKinds) # <<>>
    /\ ~GithubIssued /\ ~GithubAnswered

\* ---- C8
\* C8: no response returned by either service crashes the process: a run that
\* has issued a request ends with exit code 0 after rendering the report.
C8_NoResponseCrashes ==
    (pc = "exited" /\ JiraIssued) => exit_code = 0 /\ exc = "none" /\ ReportComplete

\* ---- C9
\* the configured base URL with its trailing slashes stripped
IsStrippedBase(base, configured) ==
    \E k \in 0..Len(configured) :
        /\ base = SubSeq(configured, 1, k)
        /\ k > 0 => configured[k] # "/"
        /\ \A j \in (k + 1)..Len(configured) : configured[j] = "/"

\* C9: on a successful response with k issues the ticket fetch returns k
\* records, one per issue in response order, each with the issue's key,
\* summary and status and with url = baseUrl + "/browse/" + key, baseUrl being
\* the configured base URL with trailing slashes stripped.
C9_TicketsMirrorIssues ==
    LET issues == IF jira_response.has_list THEN jira_response.list ELSE <<>>
    IN  (JiraAnswered /\ Is2xx(jira_response)
         /\ \A i \in 1..Len(issues) : AllFields \subseteq issues[i].present) =>
            /\ JiraReturned
            /\ Len(tickets) = Len(issues)
            /\ \A i \in 1..Len(issues) :
                  /\ tickets[i].key = issues[i].key
                  /\ tickets[i].summary = issues[i].summary
                  /\ tickets[i].status = issues[i].status
                  /\ \E base \in {SubSeq(environ["JIRA_URL"].s, 1, k) :
                                    k \in 0..Len(environ["JIRA_URL"].s)} :
                        /\ IsStrippedBase(base, environ["JIRA_URL"].s)
                        /\ tickets[i].url = base \o <<"/browse/">> \o issues[i].key

C9_Witness ==
    /\ JiraReturned /\ Is2xx(jira_response)
    /\ Len(tickets) = 2 /\ tickets[1].key # tickets[2].key
    /\ environ["JIRA_URL"].s = <<"h", "/", "/">>

\* ---- C10
\* C10: in each section an empty record list renders the empty marker and no
\* count line; a list of n records renders n entries and, in full mode, a
\* trailing count equal to n; a section whose fetch failed renders like one
\* whose fetch returned nothing.
C10_SectionsRender ==
    /\ TicketSectionPrinted =>
          LET body == OfKinds(TicketBodyKinds)
          IN  /\ FailedHard(jira_response) => tickets = <<>>
              /\ IF tickets = <<>>
                 THEN body = <<Line("no_tickets",
                                    IF concise THEN <<"None">>
                                    ELSE <<"No completed tickets found in date range.">>)>>
                 ELSE /\ Len(OfKinds({"ticket"})) = Len(tickets)
                      /\ ~HasKind("no_tickets")
                      /\ concise => ~HasKind("ticket_total")
                      /\ ~concise =>
                            /\ Len(OfKinds({"ticket_total"})) = 1
                            /\ body[Len(body)] =
                                 Line("ticket_total",
                                      <<"Total: ", Digits[Len(tickets) + 1], " ticket(s)">>)
    /\ PrSectionPrinted =>
          LET body == OfKinds(PrBodyKinds)
          IN  /\ FailedHard(gh_response) => prs = <<>>
              /\ IF prs = <<>>
                 THEN body = <<Line("no_prs",
                                    IF concise THEN <<"None">>
                                    ELSE <<"No PR reviews found in date range.">>)>>
                 ELSE /\ Len(OfKinds({"pr"})) = Len(prs)
                      /\ ~HasKind("no_prs")
                      /\ concise => ~HasKind("pr_total")
                      /\ ~concise =>
                            /\ Len(OfKinds({"pr_total"})) = 1
                            /\ body[Len(body)] =
                                 Line("pr_total",
                                      <<"Total: ", Digits[Len(prs) + 1], " PR(s) reviewed">>)

C10_Witness ==
    /\ pc = "exited" /\ exit_code = 0 /\ ~concise
    /\ FailedHard(jira_response) /\ HasKind("no_tickets")
    /\ Len(prs) = 2 /\ HasKind("pr_total")

====
